---- MODULE Spec2Model ----
(***************************************************************************)
(* A model of the wake-word activated voice assistant of                   *)
(* src/voice-assistant-code.py: the VoiceAssistant session (wake_word,     *)
(* is_active, last_activation_time, timeout), its configuration, the      *)
(* command log, the run loop and the methods the loop calls.               *)
(*                                                                         *)
(* Text is modelled by TLA+ strings; `in` and lower() are computed         *)
(* character by character.  Everything the assistant does to the outside   *)
(* (speech output, browser, Wikipedia, log writes) is recorded, in order,  *)
(* in `effects`, which holds the effects of the most recent step.          *)
(***************************************************************************)
EXTENDS Integers, Sequences, FiniteSets, TLC

VARIABLES
    pc,                     \* position of run(): see Positions
    wake_word,              \* self.wake_word
    timeout,                \* self.timeout
    is_active,              \* self.is_active
    last_activation_time,   \* self.last_activation_time
    config,                 \* self.config, a function from its keys
    responses,              \* self.responses, category -> list of strings
    log,                    \* the lines this process appended to command_log.txt
    now,                    \* the clock read by time.time()
    command,                \* run()'s local variable `command`
    effects,                \* the outside effects of the most recent step, in order
    call,                   \* the method call of the most recent step and its result
    last_change,            \* the most recent change of the wake word: the wake word
                            \* before it and the text heard as the new one ("": none yet)
    last_event_time         \* history: the clock at the most recent wake-word
                            \* detection or dispatched command (0: none yet)

vars == <<pc, wake_word, timeout, is_active, last_activation_time, config,
          responses, log, now, command, effects, call, last_change,
          last_event_time>>

-----------------------------------------------------------------------------
(* Bounds of the model *)

\* the run loop is explored for MaxElapsed clock ticks after construction
MaxElapsed == 2
\* the timeout, in clock ticks, the run loop is explored with
ShortTimeout == 1
\* at most MaxLog lines are appended to the command log
MaxLog == 1
\* an utterance of the dispatcher's exploration joins at most MaxPhrases phrases
MaxPhrases == 2

\* the timeout main() constructs the assistant with
DefaultTimeout == 60

-----------------------------------------------------------------------------
(* Strings: Python's str.lower() and the `in` operator *)

UpperCase == "ABCDEFGHIJKLMNOPQRSTUVWXYZ"
LowerCase == "abcdefghijklmnopqrstuvwxyz"

\* one character lowered
LowerChar(c) ==
    IF \E i \in 1..Len(UpperCase) : SubSeq(UpperCase, i, i) = c
    THEN LET i == CHOOSE j \in 1..Len(UpperCase) : SubSeq(UpperCase, j, j) = c
         IN  SubSeq(LowerCase, i, i)
    ELSE c

\* s used as it is, without lower()
LowerAsIs(s) == s

\* s.lower()
RECURSIVE Lower(_)
Lower(s) ==
    IF s = "" THEN "" ELSE LowerChar(SubSeq(s, 1, 1)) \o Lower(SubSeq(s, 2, Len(s)))

\* needle in hay
Contains(needle, hay) ==
    \E i \in 0..(Len(hay) - Len(needle)) :
        SubSeq(hay, i + 1, i + Len(needle)) = needle

-----------------------------------------------------------------------------
(* Configuration and response templates *)

\* the dictionary _load_config returns when the file is missing or malformed
DefaultConfig ==
    [language |-> "en-US", log_commands |-> TRUE, max_wikipedia_sentences |-> 2]

\* the content of a readable, well-formed assistant_config.json that turns
\* logging off (a configuration document holds all three recognized keys)
ConfigLogOff ==
    [language |-> "en-GB", log_commands |-> FALSE, max_wikipedia_sentences |-> 3]

\* the states of assistant_config.json when the assistant is constructed
ConfigFiles ==
    { [state |-> "absent",     content |-> DefaultConfig],
      [state |-> "malformed",  content |-> DefaultConfig],
      [state |-> "unreadable", content |-> DefaultConfig],
      [state |-> "valid",      content |-> ConfigLogOff] }

\* _load_config: only FileNotFoundError and JSONDecodeError are caught; any
\* other error of open() leaves the constructor as an exception
LoadConfig(file) ==
    CASE file.state \in {"absent", "malformed"} ->
            [raised |-> "none", value |-> DefaultConfig]
      [] file.state = "valid" ->
            [raised |-> "none", value |-> file.content]
      [] OTHER ->
            [raised |-> "Exception", value |-> << >>]

\* the dictionary _load_responses returns when the file is missing or malformed
DefaultResponses ==
    [greetings |->
        << "I'm doing well, thank you!",
           "I'm just a program, but thanks for asking!",
           "Doing great! How about you?" >>,
     jokes |->
        << "Why do programmers prefer dark mode? Because light attracts bugs!",
           "I told my computer I needed a break, and now it won't stop sending me vacation ads.",
           "What's a computer's favorite snack? Microchips!",
           "How many programmers does it take to change a light bulb? None, that's a hardware problem.",
           "Why was the JavaScript developer sad? Because he didn't know how to Object.create(happiness);" >>,
     quotes |->
        << "The greatest glory in living lies not in never falling, but in rising every time we fall.",
           "The way to get started is to quit talking and begin doing.",
           "Your time is limited, so don't waste it living someone else's life.",
           "If life were predictable it would cease to be life, and be without flavor.",
           "Spread love everywhere you go. Let no one ever come to you without leaving happier.",
           "When you reach the end of your rope, tie a knot in it and hang on." >>,
     preferences |->
        << "I enjoy helping you with your questions.",
           "I love learning new things from you.",
           "I like to keep you entertained!" >>,
     unknown_command |->
        << "I'm sorry, I can't perform that command.",
           "I don't understand that instruction.",
           "That's beyond my capabilities right now." >>]

-----------------------------------------------------------------------------
(* Effects and results *)

\* one outside effect: op names it, arg is its argument
Ev(op, arg) == [op |-> op, arg |-> arg]

\* speak(text)
Speak(text) == Ev("speak", text)

\* the fixed texts the assistant speaks
TimeoutNotice  == "Timing out due to inactivity."
Farewell       == "Goodbye!"
ShutdownNotice == "I encountered an error and need to shut down."

\* the events of `evs` whose op is `op`
EventsOf(evs, op) == SelectSeq(evs, LAMBDA e : e.op = op)

\* how often `text` is spoken in `evs`
TimesSpoken(evs, text) ==
    Len(SelectSeq(evs, LAMBDA e : e.op = "speak" /\ e.arg = text))

\* the outcomes of one capture-and-transcribe attempt:
\*   heard          recognize_google returned a text
\*   unknown_value  sr.UnknownValueError (speech not understood)
\*   request_error  sr.RequestError (service unavailable)
\*   wait_timeout   sr.WaitTimeoutError (nothing was said)
\*   failure        any other exception of the microphone or the recognizer
\*   interrupt      KeyboardInterrupt while the call blocks
ListenOutcomes ==
    {"heard", "unknown_value", "request_error", "wait_timeout", "failure", "interrupt"}

\* the listening methods without their `except sr.RequestError` clauses
PropagatesRequestError(outcome) ==
    CASE outcome \in {"failure", "request_error"} -> "Exception"
      [] outcome = "interrupt" -> "KeyboardInterrupt"
      [] OTHER                 -> "none"

\* the listening methods without their `except sr.WaitTimeoutError` clauses
PropagatesWaitTimeout(outcome) ==
    CASE outcome \in {"failure", "wait_timeout"} -> "Exception"
      [] outcome = "interrupt" -> "KeyboardInterrupt"
      [] OTHER                 -> "none"

\* the exceptions that leave a listen whatever the method catches
Propagates(outcome) ==
    CASE outcome = "failure"   -> "Exception"
      [] outcome = "interrupt" -> "KeyboardInterrupt"
      [] OTHER                 -> "none"

-----------------------------------------------------------------------------
(* The listening methods *)

\* whether self.config[key] succeeds (a missing key raises KeyError)
HasKey(key) == key \in DOMAIN config

\* the timeout test of listen_for_wake_word
TimedOut == is_active /\ now - last_activation_time > timeout

\* the test of line 155 without the lower() of line 152
WakeWordInAsHeard(text) == Contains(wake_word, text)

\* `self.wake_word in text` after text = text.lower()
WakeWordIn(text) == Contains(wake_word, Lower(text))

\* listen_for_wake_word(): the value returned, is_active afterwards and what
\* was spoken, for one outcome of the capture and the text transcribed
ListenForWakeWord(outcome, text) ==
    LET unchanged(raised, ret) ==
            [raised |-> raised, ret |-> ret, is_active |-> is_active, effects |-> << >>]
        checked ==
            IF TimedOut
            THEN [raised |-> "none", ret |-> FALSE, is_active |-> FALSE,
                  effects |-> << Speak(TimeoutNotice) >>]
            ELSE unchanged("none", FALSE)
    IN  CASE Propagates(outcome) # "none" -> unchanged(Propagates(outcome), FALSE)
          [] outcome = "wait_timeout"     -> unchanged("none", FALSE)
          [] ~HasKey("language")          -> unchanged("Exception", FALSE)
          [] outcome = "request_error"    -> unchanged("none", FALSE)
          [] outcome = "unknown_value"    -> checked
          [] OTHER ->
                IF WakeWordIn(text) THEN unchanged("none", TRUE) ELSE checked

\* listen_for_command(): the command returned ("" on error) and what was spoken
ListenForCommand(outcome, text) ==
    LET prompt == << Speak("How can I help you?") >>
        result(raised, ret, said) ==
            [raised |-> raised, ret |-> ret, effects |-> prompt \o said]
    IN  CASE Propagates(outcome) # "none" -> result(Propagates(outcome), "", << >>)
          [] outcome = "wait_timeout" ->
                result("none", "", << Speak("I didn't hear a command.") >>)
          [] ~HasKey("language") -> result("Exception", "", << >>)
          [] outcome = "unknown_value" ->
                result("none", "", << Speak("Sorry, I could not understand that.") >>)
          [] outcome = "request_error" ->
                result("none", "",
                       << Speak("Sorry, there was an error with the speech recognition service.") >>)
          [] OTHER -> result("none", Lower(text), << >>)

-----------------------------------------------------------------------------
(* The command dispatcher *)

\* the conditions of process_command's if/elif chain, numbered in its order
Matches(k, query) ==
    CASE k = 1  -> Contains("exit", query) \/ Contains("goodbye", query)
                   \/ Contains("bye", query)
      [] k = 2  -> Contains("sleep", query) \/ Contains("deactivate", query)
      [] k = 3  -> Contains("wikipedia", query)
      [] k = 4  -> Contains("time", query)
      [] k = 5  -> Contains("date", query)
      [] k = 6  -> Contains("how are you", query)
      [] k = 7  -> Contains("what is your name", query) \/ Contains("who are you", query)
      [] k = 8  -> Contains("search", query)
      [] k = 9  -> Contains("tell me a joke", query) \/ Contains("joke", query)
      [] k = 10 -> Contains("give me a quote", query) \/ Contains("quote", query)
      [] k = 11 -> Contains("what do you like to do", query)
                   \/ Contains("your hobbies", query)
      [] k = 12 -> Contains("change wake word", query)
      [] OTHER  -> TRUE

\* the chain with the joke branch tested before the exit branch
IntentJokeBeforeExit(query) ==
    IF Matches(9, query) THEN 9
    ELSE IF Matches(1, query) THEN 1
    ELSE IF Matches(2, query) THEN 2
    ELSE IF Matches(3, query) THEN 3
    ELSE IF Matches(4, query) THEN 4
    ELSE IF Matches(5, query) THEN 5
    ELSE IF Matches(6, query) THEN 6
    ELSE IF Matches(7, query) THEN 7
    ELSE IF Matches(8, query) THEN 8
    ELSE IF Matches(10, query) THEN 10
    ELSE IF Matches(11, query) THEN 11
    ELSE IF Matches(12, query) THEN 12
    ELSE 13

\* the branch of the if/elif chain that process_command takes on query
Intent(query) ==
    IF Matches(1, query) THEN 1
    ELSE IF Matches(2, query) THEN 2
    ELSE IF Matches(3, query) THEN 3
    ELSE IF Matches(4, query) THEN 4
    ELSE IF Matches(5, query) THEN 5
    ELSE IF Matches(6, query) THEN 6
    ELSE IF Matches(7, query) THEN 7
    ELSE IF Matches(8, query) THEN 8
    ELSE IF Matches(9, query) THEN 9
    ELSE IF Matches(10, query) THEN 10
    ELSE IF Matches(11, query) THEN 11
    ELSE IF Matches(12, query) THEN 12
    ELSE 13

\* the response category random.choice draws from in a branch ("" when none)
CategoryOf(k) ==
    CASE k = 6  -> "greetings"
      [] k = 9  -> "jokes"
      [] k = 10 -> "quotes"
      [] k = 11 -> "preferences"
      [] k = 13 -> "unknown_command"
      [] OTHER  -> ""

\* random.choice always returning the first entry of the list
PicksFirstOnly(query) == {1}

\* the indices random.choice may pick in the branch taken on query
Picks(query) ==
    IF CategoryOf(Intent(query)) = "" THEN {1}
    ELSE 1..Len(responses[CategoryOf(Intent(query))])

\* the outcomes of wikipedia.summary
WikiOutcomes == {"ok", "ambiguous", "not_found", "failed", "interrupt"}

\* _log_command writing the line twice
LogCommandTwice(lines, cmd, write_ok) ==
    IF write_ok
    THEN lines \o << [time |-> now, command |-> cmd], [time |-> now, command |-> cmd] >>
    ELSE lines

\* _log_command(command): the log afterwards; a failed write is swallowed
LogCommand(lines, cmd, write_ok) ==
    IF write_ok THEN Append(lines, [time |-> now, command |-> cmd]) ELSE lines

\* _search_wikipedia(topic)
SearchWikipedia(topic, wiki) ==
    LET lookup == << Ev("wikipedia_summary", topic) >>
    IN  CASE ~HasKey("max_wikipedia_sentences") ->
                [raised |-> "none", effects |->
                    << Speak("Sorry, something went wrong with the Wikipedia search.") >>]
          [] wiki = "interrupt" ->
                [raised |-> "KeyboardInterrupt", effects |-> lookup]
          [] wiki = "ok" ->
                [raised |-> "none", effects |-> lookup \o << Ev("speak_summary", topic) >>]
          [] wiki = "ambiguous" ->
                [raised |-> "none", effects |-> lookup \o
                    << Speak("The topic is ambiguous, please be more specific.") >>]
          [] wiki = "not_found" ->
                [raised |-> "none", effects |-> lookup \o
                    << Speak("Unfortunately, there is no page with that title.") >>]
          [] OTHER ->
                [raised |-> "none", effects |-> lookup \o
                    << Speak("Sorry, something went wrong with the Wikipedia search.") >>]

\* _web_search(query)
WebSearch(q) ==
    << Speak("Searching for " \o q \o " on Google."),
       Ev("webbrowser_open", "https://www.google.com/search?q=" \o q),
       Speak("Here are the search results.") >>

\* _change_wake_word without the assignment of line 328
ChangeWakeWordUnassigned(sub_outcome, sub_text) ==
    LET heard == ListenForCommand(sub_outcome, sub_text)
        asked == << Speak("What would you like to set as the new wake word?") >>
                 \o heard.effects
    IN  IF heard.raised = "none" /\ heard.ret # ""
        THEN [raised |-> "none", wake_word |-> wake_word,
              effects |-> asked \o << Speak("Wake word changed to " \o heard.ret) >>]
        ELSE [raised |-> heard.raised, wake_word |-> wake_word, effects |-> asked]

\* _change_wake_word without the test of line 327
ChangeWakeWordUnchecked(sub_outcome, sub_text) ==
    LET heard == ListenForCommand(sub_outcome, sub_text)
        asked == << Speak("What would you like to set as the new wake word?") >>
                 \o heard.effects
    IN  IF heard.raised = "none"
        THEN [raised |-> "none", wake_word |-> Lower(heard.ret),
              effects |-> asked \o << Ev("set_wake_word", Lower(heard.ret)),
                                      Speak("Wake word changed to " \o heard.ret) >>]
        ELSE [raised |-> heard.raised, wake_word |-> wake_word, effects |-> asked]

\* _change_wake_word(): the wake word afterwards and the effects
ChangeWakeWord(sub_outcome, sub_text) ==
    LET heard == ListenForCommand(sub_outcome, sub_text)
        asked == << Speak("What would you like to set as the new wake word?") >>
                 \o heard.effects
    IN  IF heard.raised = "none" /\ heard.ret # ""
        THEN [raised |-> "none", wake_word |-> Lower(heard.ret),
              effects |-> asked \o << Ev("set_wake_word", Lower(heard.ret)),
                                      Speak("Wake word changed to " \o heard.ret) >>]
        ELSE [raised |-> heard.raised, wake_word |-> wake_word, effects |-> asked]

\* the exit branch without its assignment of line 223
ActiveAfterExitKept(k) == IF k = 2 THEN FALSE ELSE is_active

\* the fallback branch clearing is_active as the exit and sleep branches do
ActiveAfterFallbackIdle(k) == IF k \in {1, 2, 13} THEN FALSE ELSE is_active

\* is_active after branch k: lines 223 and 228 clear it, no other branch
\* assigns it
ActiveAfter(k) == IF k \in {1, 2} THEN FALSE ELSE is_active

\* the body of branch k of process_command: what it raises, is_active and
\* wake_word afterwards and the effects.  in holds what the outside answers:
\* the sub-listen (sub_outcome, sub_text), the Wikipedia lookup (wiki), the
\* index random.choice picks (pick)
RunHandler(k, query, in) ==
    LET entered == << Ev("handler", k) >>
        done(said) ==
            [raised |-> "none", is_active |-> ActiveAfter(k), wake_word |-> wake_word,
             effects |-> entered \o said]
        sub == ListenForCommand(in.sub_outcome, in.sub_text)
        asking(prompt, then) ==
            LET said == entered \o << Speak(prompt) >> \o sub.effects
            IN  IF sub.raised = "none" /\ sub.ret # ""
                THEN [raised |-> then.raised, is_active |-> ActiveAfter(k),
                      wake_word |-> wake_word, effects |-> said \o then.effects]
                ELSE [raised |-> sub.raised, is_active |-> ActiveAfter(k),
                      wake_word |-> wake_word, effects |-> said]
    IN  CASE k = 1  -> done(<< Speak(Farewell) >>)
          [] k = 2  -> done(
                << Speak("Going to sleep. Say the wake word to activate me again.") >>)
          [] k = 3  -> asking("What would you like to search on Wikipedia?",
                              SearchWikipedia(sub.ret, in.wiki))
          [] k = 4  -> done(<< Ev("speak_time", now) >>)
          [] k = 5  -> done(<< Ev("speak_date", now) >>)
          [] k = 7  -> done(
                << Speak("I am your voice assistant, activated by saying the wake word.") >>)
          [] k = 8  -> asking("What do you want to search for on Google?",
                              [raised |-> "none", effects |-> WebSearch(sub.ret)])
          [] k = 12 ->
                LET changed == ChangeWakeWord(in.sub_outcome, in.sub_text)
                IN  [raised |-> changed.raised, is_active |-> ActiveAfter(k),
                     wake_word |-> changed.wake_word,
                     effects |-> entered \o changed.effects]
          [] OTHER  -> done(<< Speak(responses[CategoryOf(k)][in.pick]) >>)

\* process_command with line 214 moved behind the logging of lines 216-218
ProcessCommandLogsFirst(query, in) ==
    LET stamped == << Ev("set_last_activation_time", now) >>
        logging == config["log_commands"]
        logged  == IF logging THEN << Ev("log_command", query) >> ELSE << >>
        handled == RunHandler(Intent(query), query, in)
    IN  [raised |-> handled.raised,
         ret |-> handled.raised = "none",
         is_active |-> handled.is_active,
         last_activation_time |-> now,
         wake_word |-> handled.wake_word,
         log |-> IF logging THEN LogCommand(log, query, in.write_ok) ELSE log,
         effects |-> logged \o stamped \o handled.effects]

\* process_command without the assignment of line 214
ProcessCommandUnstamped(query, in) ==
    LET logging == config["log_commands"]
        logged  == IF logging THEN << Ev("log_command", query) >> ELSE << >>
        handled == RunHandler(Intent(query), query, in)
    IN  [raised |-> handled.raised,
         ret |-> handled.raised = "none",
         is_active |-> handled.is_active,
         last_activation_time |-> last_activation_time,
         wake_word |-> handled.wake_word,
         log |-> IF logging THEN LogCommand(log, query, in.write_ok) ELSE log,
         effects |-> logged \o handled.effects]

\* process_command(query)
ProcessCommand(query, in) ==
    LET stamped == << Ev("set_last_activation_time", now) >>
    IN  IF ~HasKey("log_commands")
        THEN [raised |-> "Exception", ret |-> FALSE, is_active |-> is_active,
              last_activation_time |-> now, wake_word |-> wake_word,
              log |-> log, effects |-> stamped]
        ELSE LET logging == config["log_commands"]
                 logged  == IF logging THEN << Ev("log_command", query) >> ELSE << >>
                 handled == RunHandler(Intent(query), query, in)
             IN  [raised |-> handled.raised,
                  ret |-> handled.raised = "none",
                  is_active |-> handled.is_active,
                  last_activation_time |-> now,
                  wake_word |-> handled.wake_word,
                  log |-> IF logging THEN LogCommand(log, query, in.write_ok) ELSE log,
                  effects |-> stamped \o logged \o handled.effects]

-----------------------------------------------------------------------------
(* What the outside may answer *)

\* the wake_word argument the assistant is constructed with
WakeWordArgs == {"Hey Assistant"}

\* texts the recognizer may return while the loop polls for the wake word
PollTexts ==
    {"OK Hey Assistant please help", "hey assist", "hey assistant",
     "ok computer do this"}

\* texts the recognizer may return while the loop listens for a command
CommandTexts ==
    {"Tell me a joke then exit", "go to sleep", "change wake word",
     "wikipedia", "search", "hello"}

\* texts the recognizer may return in the sub-listen of a handler
SubTexts == {"Computer", "assistant"}

\* one capture-and-transcribe attempt: its outcome and, when heard, the text
ListenResults(texts) ==
    {[outcome |-> "heard", text |-> t] : t \in texts}
    \cup {[outcome |-> o, text |-> ""] : o \in ListenOutcomes \ {"heard"}}

\* the answers of the outside that process_command(query) can read
AnswersFor(query) ==
    LET k      == Intent(query)
        subs   == IF k \in {3, 8, 12} THEN ListenResults(SubTexts)
                  ELSE {[outcome |-> "wait_timeout", text |-> ""]}
        wikis  == IF k = 3 THEN WikiOutcomes ELSE {"ok"}
        writes == IF HasKey("log_commands") /\ config["log_commands"]
                  THEN BOOLEAN ELSE {TRUE}
    IN  {[sub_outcome |-> sb.outcome, sub_text |-> sb.text, wiki |-> w,
          pick |-> p, write_ok |-> ok] :
            sb \in subs, w \in wikis, p \in Picks(query), ok \in writes}

-----------------------------------------------------------------------------
(* The run loop *)

\* the positions of run(): "start" before line 350, "poll" at line 355,
\* "listen" at line 361, "dispatch" at line 363, "sleep" at line 367, "done"
\* after one of its except clauses; "crashed" when the constructor raised and
\* "killed" when an exception left run()
LoopPositions == {"poll", "listen", "dispatch", "sleep"}

\* the clock at construction: time.time() is far more than timeout past 0
StartTime == ShortTimeout + 1

\* the state after VoiceAssistant(wake_word, timeout) is constructed
Init ==
    \E file \in ConfigFiles, arg \in WakeWordArgs :
        LET loaded == LoadConfig(file)
        IN  /\ pc = IF loaded.raised = "none" THEN "start" ELSE "crashed"
            /\ wake_word = Lower(arg)
            /\ timeout = ShortTimeout
            /\ is_active = FALSE
            /\ last_activation_time = 0
            /\ config = loaded.value
            /\ responses = DefaultResponses
            /\ log = << >>
            /\ now = StartTime
            /\ command = ""
            /\ effects = << >>
            /\ call = [method |-> "__init__", file |-> file.state,
                       raised |-> loaded.raised, was_active |-> FALSE]
            /\ last_change = [old |-> "", said |-> ""]
            /\ last_event_time = 0

\* run() without the speak of line 371
CaughtWithoutFarewell(raised, evs) ==
    IF raised = "KeyboardInterrupt"
    THEN [pc |-> "done", effects |-> evs]
    ELSE [pc |-> "done", effects |-> evs \o << Speak(ShutdownNotice) >>]

\* the except clauses of run(): the position and the effects after an
\* exception left the loop body with effects evs
Caught(raised, evs) ==
    IF raised = "KeyboardInterrupt"
    THEN [pc |-> "done", effects |-> evs \o << Speak(Farewell) >>]
    ELSE [pc |-> "done", effects |-> evs \o << Speak(ShutdownNotice) >>]

\* the loop's test of line 355 made when it never finds the session active
IdleBranchAlways == TRUE

\* line 355: `if not self.is_active`
IdleBranch == ~is_active

\* the loop's test of line 361 made when it always finds the session active
ActiveBranchAlways == TRUE

\* line 361: `if self.is_active`
ActiveBranch == is_active

\* lines 356-358 without the assignment of line 358
ActivationUnstamped(polled) ==
    [is_active |-> polled.ret \/ polled.is_active,
     last_activation_time |-> last_activation_time]

\* lines 356-358: is_active and last_activation_time after the poll whose
\* result is polled
Activation(polled) ==
    [is_active |-> polled.ret \/ polled.is_active,
     last_activation_time |-> IF polled.ret THEN now ELSE last_activation_time]

\* line 350: the greeting spoken before the loop is entered
Start ==
    /\ pc = "start"
    /\ pc' = "poll"
    /\ effects' = << Speak("Voice assistant initialized. Say '" \o wake_word
                           \o "' to activate me.") >>
    /\ call' = [method |-> "run", raised |-> "none", was_active |-> is_active]
    /\ UNCHANGED <<wake_word, timeout, is_active, last_activation_time, config,
                   responses, log, now, command, last_change, last_event_time>>

\* lines 355-358 with is_active false: one wake-word poll
PollWakeWord ==
    /\ pc = "poll"
    /\ IdleBranch
    /\ \E heard \in ListenResults(PollTexts) :
        LET r == ListenForWakeWord(heard.outcome, heard.text)
        IN  /\ call' = [method |-> "listen_for_wake_word", outcome |-> heard.outcome,
                        text |-> heard.text, ret |-> r.ret, raised |-> r.raised,
                        was_active |-> is_active]
            /\ IF r.raised # "none"
               THEN /\ pc' = Caught(r.raised, r.effects).pc
                    /\ effects' = Caught(r.raised, r.effects).effects
                    /\ is_active' = r.is_active
                    /\ UNCHANGED <<last_activation_time, last_event_time>>
               ELSE /\ pc' = "listen"
                    /\ effects' = r.effects
                    /\ is_active' = Activation(r).is_active
                    /\ last_activation_time' = Activation(r).last_activation_time
                    /\ last_event_time' = IF r.ret THEN now ELSE last_event_time
    /\ UNCHANGED <<wake_word, timeout, config, responses, log, now, command,
                   last_change>>

\* line 355 with is_active true: no poll
SkipPoll ==
    /\ pc = "poll"
    /\ ~IdleBranch
    /\ pc' = "listen"
    /\ effects' = << >>
    /\ call' = [method |-> "run", raised |-> "none", was_active |-> is_active]
    /\ UNCHANGED <<wake_word, timeout, is_active, last_activation_time, config,
                   responses, log, now, command, last_change, last_event_time>>

\* lines 361-362 with is_active true: listen for a command (no further
\* command is heard once the log holds MaxLog lines)
ListenCommand ==
    /\ pc = "listen"
    /\ ActiveBranch
    /\ \E heard \in ListenResults(CommandTexts) :
        LET r == ListenForCommand(heard.outcome, heard.text)
        IN  /\ heard.outcome = "heard" => Len(log) < MaxLog
            /\ call' = [method |-> "listen_for_command", outcome |-> heard.outcome,
                        text |-> heard.text, ret |-> r.ret, raised |-> r.raised,
                        was_active |-> is_active]
            /\ IF r.raised # "none"
               THEN /\ pc' = Caught(r.raised, r.effects).pc
                    /\ effects' = Caught(r.raised, r.effects).effects
                    /\ UNCHANGED command
               ELSE /\ pc' = "dispatch"
                    /\ effects' = r.effects
                    /\ command' = r.ret
    /\ UNCHANGED <<wake_word, timeout, is_active, last_activation_time, config,
                   responses, log, now, last_change, last_event_time>>

\* line 361 with is_active false: nothing to do until the sleep
SkipCommand ==
    /\ pc = "listen"
    /\ ~ActiveBranch
    /\ pc' = "sleep"
    /\ effects' = << >>
    /\ call' = [method |-> "run", raised |-> "none", was_active |-> is_active]
    /\ UNCHANGED <<wake_word, timeout, is_active, last_activation_time, config,
                   responses, log, now, command, last_change, last_event_time>>

\* the assignments of one process_command(query) call answered by in
Dispatched(query, in) ==
    LET r == ProcessCommand(query, in)
    IN  /\ call' = [method |-> "process_command", query |-> query, in |-> in,
                    intent |-> Intent(query), ret |-> r.ret, raised |-> r.raised,
                    was_active |-> is_active]
        /\ is_active' = r.is_active
        /\ last_activation_time' = r.last_activation_time
        /\ wake_word' = r.wake_word
        /\ last_change' = IF Intent(query) = 12 /\ in.sub_outcome = "heard"
                          THEN [old |-> wake_word, said |-> in.sub_text]
                          ELSE last_change
        /\ log' = r.log
        /\ last_event_time' = now

\* lines 363-364 with a command: dispatch it
Dispatch ==
    /\ pc = "dispatch"
    /\ command # ""
    /\ \E in \in AnswersFor(command) :
        LET r == ProcessCommand(command, in)
        IN  /\ Dispatched(command, in)
            /\ IF r.raised # "none"
               THEN /\ pc' = Caught(r.raised, r.effects).pc
                    /\ effects' = Caught(r.raised, r.effects).effects
               ELSE /\ pc' = "sleep"
                    /\ effects' = r.effects
    /\ UNCHANGED <<timeout, config, responses, now, command>>

\* line 363 with the empty command: nothing is dispatched
SkipDispatch ==
    /\ pc = "dispatch"
    /\ command = ""
    /\ pc' = "sleep"
    /\ effects' = << >>
    /\ call' = [method |-> "run", raised |-> "none", was_active |-> is_active]
    /\ UNCHANGED <<wake_word, timeout, is_active, last_activation_time, config,
                   responses, log, now, command, last_change, last_event_time>>

\* line 367: time.sleep(0.1), then the next iteration.  The next iteration
\* reads `command` only after assigning it (lines 362-363), so the value an
\* iteration leaves behind is dropped here
Sleep ==
    /\ pc = "sleep"
    /\ pc' = "poll"
    /\ effects' = << >>
    /\ command' = ""
    /\ call' = [method |-> "time.sleep", raised |-> "none", was_active |-> is_active]
    /\ UNCHANGED <<wake_word, timeout, is_active, last_activation_time, config,
                   responses, log, now, last_change, last_event_time>>

\* lines 369-371: KeyboardInterrupt between two steps of the loop
Interrupt ==
    /\ pc \in LoopPositions
    /\ pc' = Caught("KeyboardInterrupt", << >>).pc
    /\ effects' = Caught("KeyboardInterrupt", << >>).effects
    /\ call' = [method |-> "run", raised |-> "KeyboardInterrupt",
                was_active |-> is_active]
    /\ UNCHANGED <<wake_word, timeout, is_active, last_activation_time, config,
                   responses, log, now, command, last_change, last_event_time>>

\* KeyboardInterrupt during line 350, which no except clause covers
InterruptAtStart ==
    /\ pc = "start"
    /\ pc' = "killed"
    /\ effects' = << >>
    /\ call' = [method |-> "run", raised |-> "KeyboardInterrupt",
                was_active |-> is_active]
    /\ UNCHANGED <<wake_word, timeout, is_active, last_activation_time, config,
                   responses, log, now, command, last_change, last_event_time>>

\* the clock advances while the loop runs
Tick ==
    /\ pc \in LoopPositions
    /\ now < StartTime + MaxElapsed
    /\ now' = now + 1
    /\ UNCHANGED <<pc, wake_word, timeout, is_active, last_activation_time, config,
                   responses, log, command, effects, call, last_change, last_event_time>>

Next ==
    \/ Start
    \/ PollWakeWord
    \/ SkipPoll
    \/ ListenCommand
    \/ SkipCommand
    \/ Dispatch
    \/ SkipDispatch
    \/ Sleep
    \/ Interrupt
    \/ InterruptAtStart
    \/ Tick

Spec == Init /\ [][Next]_vars

-----------------------------------------------------------------------------
(* listen_for_wake_word() called on its own, once, on a session in any state *)

\* a session that is active or not, last activated at StartTime, with the
\* clock one tick before, at and one tick after the timeout
PollInit ==
    \E active \in BOOLEAN, t \in {ShortTimeout, DefaultTimeout},
       cfg \in {DefaultConfig, ConfigLogOff}, d \in {-1, 0, 1},
       arg \in WakeWordArgs \cup SubTexts :
        /\ pc = "call"
        /\ wake_word = Lower(arg)
        /\ timeout = t
        /\ is_active = active
        /\ last_activation_time = StartTime
        /\ config = cfg
        /\ responses = DefaultResponses
        /\ log = << >>
        /\ now = StartTime + t + d
        /\ command = ""
        /\ effects = << >>
        /\ call = [method |-> "__init__", raised |-> "none", was_active |-> active]
        /\ last_change = [old |-> "", said |-> ""]
        /\ last_event_time = StartTime

\* one call of listen_for_wake_word()
PollOnce ==
    /\ pc = "call"
    /\ pc' = "returned"
    /\ \E heard \in ListenResults(PollTexts) :
        LET r == ListenForWakeWord(heard.outcome, heard.text)
        IN  /\ call' = [method |-> "listen_for_wake_word", outcome |-> heard.outcome,
                        text |-> heard.text, ret |-> r.ret, raised |-> r.raised,
                        was_active |-> is_active]
            /\ effects' = r.effects
            /\ is_active' = r.is_active
            /\ last_event_time' = IF r.ret THEN now ELSE last_event_time
    /\ UNCHANGED <<wake_word, timeout, last_activation_time, config, responses,
                   log, now, command, last_change>>

PollSpec == PollInit /\ [][PollOnce]_vars

-----------------------------------------------------------------------------
(* process_command(query) called on its own, once, on every utterance *)

\* phrases an utterance is made of: each holds a keyword of the dispatcher,
\* but for the last
Phrases ==
    {"exit", "goodbye", "go to sleep", "wikipedia", "sometimes", "update",
     "how are you", "who are you", "search", "joke", "quote", "your hobbies",
     "change wake word", "hello"}

\* utterances that hold the dispatcher's other keywords
OtherUtterances ==
    {"deactivate", "what is your name", "tell me a joke then exit",
     "give me a quote", "what do you like to do", "bye"}

\* the phrases of ps joined by blanks
RECURSIVE Join(_)
Join(ps) ==
    IF Len(ps) = 1 THEN ps[1] ELSE ps[1] \o " " \o Join(Tail(ps))

\* the non-empty lowercase utterances process_command is applied to
Utterances ==
    OtherUtterances
    \cup {Join(ps) : ps \in UNION {[1..n -> Phrases] : n \in 1..MaxPhrases}}

\* a session that is active or not, one tick after it was last activated
DispatchInit ==
    \E active \in BOOLEAN, cfg \in {DefaultConfig, ConfigLogOff},
       arg \in WakeWordArgs :
        /\ pc = "call"
        /\ wake_word = Lower(arg)
        /\ timeout = ShortTimeout
        /\ is_active = active
        /\ last_activation_time = StartTime
        /\ config = cfg
        /\ responses = DefaultResponses
        /\ log = << >>
        /\ now = StartTime + 1
        /\ command = ""
        /\ effects = << >>
        /\ call = [method |-> "__init__", raised |-> "none", was_active |-> active]
        /\ last_change = [old |-> "", said |-> ""]
        /\ last_event_time = StartTime

\* one call of process_command(query)
DispatchOnce ==
    /\ pc = "call"
    /\ pc' = "returned"
    /\ \E query \in Utterances :
        \E in \in AnswersFor(query) :
            /\ Dispatched(query, in)
            /\ effects' = ProcessCommand(query, in).effects
    /\ UNCHANGED <<timeout, config, responses, now, command>>

DispatchSpec == DispatchInit /\ [][DispatchOnce]_vars

-----------------------------------------------------------------------------
(* The claims *)

\* a step of run() from line 355 to line 361: the tick of the loop
LoopTick == pc = "poll" /\ pc' = "listen"

\* C1: in the run loop the timeout is enforced on every loop tick: a tick
\* that finds the session active with more than timeout seconds since
\* last_activation_time leaves the session idle.
C1_TimeoutEnforcedOnEveryTick ==
    [][(LoopTick /\ TimedOut) => ~is_active']_vars

\* the most recent step was a call of listen_for_wake_word that returned
Polled == call.method = "listen_for_wake_word" /\ call.raised = "none"

\* C2: a wake-word poll of an active session made more than timeout after
\* last_activation_time sets is_active to false and speaks the timeout notice
\* exactly once, whatever the capture and the transcription gave; a poll made
\* at most timeout after it leaves is_active true and speaks no notice.
C2_PollTimesOutWhateverTheOutcome ==
    (pc = "returned" /\ Polled /\ call.was_active) =>
        IF now - last_activation_time > timeout
        THEN ~is_active /\ TimesSpoken(effects, TimeoutNotice) = 1
        ELSE is_active /\ TimesSpoken(effects, TimeoutNotice) = 0

\* the intents in their fixed order, each with the phrases that select it
IntentKeywords ==
    << {"exit", "goodbye", "bye"},
       {"sleep", "deactivate"},
       {"wikipedia"},
       {"time"},
       {"date"},
       {"how are you"},
       {"what is your name", "who are you"},
       {"search"},
       {"joke"},
       {"quote"},
       {"what do you like to do", "your hobbies"},
       {"change wake word"} >>

\* the intents whose predicate holds on utterance q
Selected(q) ==
    {i \in 1..Len(IntentKeywords) : \E w \in IntentKeywords[i] : Contains(w, q)}

\* the first of them, or 13, the fallback, when there is none
FirstMatch(q) ==
    IF Selected(q) = {} THEN 13
    ELSE CHOOSE i \in Selected(q) : \A j \in Selected(q) : i <= j

\* the most recent step was a call of process_command
Commanded == call.method = "process_command"

\* the handlers the most recent step entered, in order
HandlersRun == [i \in 1..Len(EventsOf(effects, "handler")) |->
                    EventsOf(effects, "handler")[i].arg]

\* C3: for every non-empty lowercase utterance process_command invokes exactly
\* one handler, that of the first intent in the fixed order whose substring
\* predicate holds on the utterance; the fallback handler runs if and only if
\* no predicate of intents 1-12 holds.
C3_FirstMatchWins ==
    (pc = "returned" /\ Commanded) =>
        /\ HandlersRun = << FirstMatch(call.query) >>
        /\ (13 \in {HandlersRun[i] : i \in DOMAIN HandlersRun})
                <=> Selected(call.query) = {}

\* "tell me a joke then exit" was handled as exit, not as joke
C3_Witness ==
    /\ pc = "returned"
    /\ Commanded
    /\ call.query = "tell me a joke then exit"
    /\ HandlersRun = << 1 >>

\* C4: an utterance containing "exit", "goodbye" or "bye" is handled as the
\* exit intent, even when it holds the keyword of a later intent, and one
\* matching sleep/deactivate but not exit as the sleep intent: the session
\* goes idle, no other handler runs, and the process does not terminate: the
\* loop is at its sleep, from where it goes on to poll for the wake word.
C4_ExitAndSleepGoIdle ==
    (pc \in LoopPositions \cup {"done"} /\ Commanded
        /\ \E i \in {1, 2} : \E w \in IntentKeywords[i] : Contains(w, call.query)) =>
        /\ HandlersRun =
              << IF \E w \in IntentKeywords[1] : Contains(w, call.query) THEN 1 ELSE 2 >>
        /\ ~is_active
        /\ call.raised = "none"
        /\ pc = "sleep"
        /\ ENABLED Sleep

\* the run loop handled "tell me a joke then exit" in an active session
C4_Witness ==
    /\ pc = "sleep"
    /\ Commanded
    /\ call.query = "tell me a joke then exit"
    /\ call.was_active
    /\ HandlersRun = << 1 >>
    /\ ~is_active

\* C5: every invocation of process_command, whatever intent the utterance
\* matches, the fallback included, sets last_activation_time to the current
\* time before the command is logged, before any handler runs and before
\* anything is spoken: the assignment is the first effect of the call.
C5_ActivationTimeResetFirst ==
    (pc = "returned" /\ Commanded) =>
        /\ last_activation_time = now
        /\ Len(effects) >= 2
        /\ effects[1].op = "set_last_activation_time"
        /\ effects[1].arg = now
        /\ \A i \in 2..Len(effects) : effects[i].op # "set_last_activation_time"

\* an unknown command was logged and answered after the time was reset
C5_Witness ==
    /\ pc = "returned"
    /\ Commanded
    /\ call.query = "hello"
    /\ HandlersRun = << 13 >>
    /\ last_activation_time = now
    /\ [i \in 1..3 |-> effects[i].op] =
            << "set_last_activation_time", "log_command", "handler" >>

\* a step of run() that calls process_command (lines 363-364)
DispatchStep == pc = "dispatch" /\ call'.method = "process_command"

\* C6: when log_commands is false the command log never grows, whatever the
\* loop does; when log_commands is true and the write succeeds, each
\* process_command invocation appends exactly one entry, which holds the raw
\* utterance.
C6_LogFollowsLogCommands ==
    [][/\ ~config["log_commands"] => log' = log
       /\ (DispatchStep /\ config["log_commands"] /\ call'.in.write_ok) =>
            /\ Len(log') = Len(log) + 1
            /\ SubSeq(log', 1, Len(log)) = log
            /\ log'[Len(log')].command = command
       /\ ~DispatchStep => log' = log]_vars

\* with logging off, a second command was dispatched and the log is empty
C6_Witness ==
    /\ Commanded
    /\ ~config["log_commands"]
    /\ last_change.said # ""
    /\ HandlersRun = << 2 >>
    /\ log = << >>

\* w occurs in t at some position, letter case of t ignored
OccursIgnoringCase(w, t) ==
    \E i \in 0..(Len(t) - Len(w)) :
        \A j \in 1..Len(w) :
            LowerChar(SubSeq(t, i + j, i + j)) = SubSeq(w, j, j)

\* C7: wake-word detection is an exact case-insensitive substring test: for
\* every transcribed utterance listen_for_wake_word returns true if the
\* lowercased utterance contains the wake word and false if it does not.
C7_WakeWordIsSubstringTest ==
    (pc = "returned" /\ Polled /\ call.outcome = "heard") =>
        (call.ret <=> OccursIgnoringCase(wake_word, call.text))

\* "OK Hey Assistant please help" was detected with wake word "hey assistant"
C7_Witness ==
    /\ pc = "returned"
    /\ Polled
    /\ wake_word = "hey assistant"
    /\ call.text = "OK Hey Assistant please help"
    /\ call.ret

\* the most recent step polled for the wake word and a text was transcribed,
\* after a change-wake-word intent had set the wake word
PolledAfterChange ==
    /\ pc \in LoopPositions
    /\ Polled
    /\ call.outcome = "heard"
    /\ last_change.said # ""

\* C8, as claimed: after the change-wake-word intent sets the wake word to a
\* new non-empty value W, an utterance containing W is detected as the wake
\* word, and the old wake word is no longer detected.
C8_OldWakeWordNoLongerDetected ==
    PolledAfterChange =>
        /\ OccursIgnoringCase(Lower(last_change.said), call.text) => call.ret
        /\ Lower(call.text) = last_change.old => ~call.ret

\* C8, amended: after the change-wake-word intent sets the wake word to a new
\* non-empty value W, an utterance containing W is detected as the wake word,
\* and the old wake word is no longer detected unless it contains W.
C8_NewWakeWordDetected ==
    PolledAfterChange =>
        /\ OccursIgnoringCase(Lower(last_change.said), call.text) => call.ret
        /\ (/\ Lower(call.text) = last_change.old
            /\ ~OccursIgnoringCase(Lower(last_change.said), last_change.old))
                => ~call.ret

\* the wake word was changed from "hey assistant" to "computer", the session
\* went idle, and "ok computer do this" was detected
C8_Witness ==
    /\ PolledAfterChange
    /\ last_change = [old |-> "hey assistant", said |-> "Computer"]
    /\ call.text = "ok computer do this"
    /\ call.ret
    /\ is_active

\* the errors of one command: what a capture-and-transcribe attempt, the
\* Wikipedia lookup and the log write may give short of an unexpected failure
\* or an interrupt
CommandErrors == {"unknown_value", "request_error", "wait_timeout"}
LookupErrors  == {"ambiguous", "not_found", "failed"}

\* the answers read by the most recent process_command call held no
\* unexpected failure and no interrupt
OnlyCommandErrors ==
    /\ call.in.sub_outcome \in CommandErrors \cup {"heard"}
    /\ call.in.wiki \in LookupErrors \cup {"ok"}

\* C9: no per-command error ends the run loop: a transcription failure, an
\* unavailable recognition service, a listen timeout, an ambiguous, not-found
\* or failed Wikipedia lookup or a log-write failure is handled where it
\* occurs and the loop goes on; the loop ends only on an unexpected internal
\* failure or an operator interrupt.
C9_CommandErrorsKeepTheLoop ==
    /\ pc = "done" => call.raised \in {"Exception", "KeyboardInterrupt"}
    /\ (pc \in LoopPositions \cup {"done"} /\ call.method = "listen_for_wake_word"
            /\ call.outcome \in CommandErrors)
        => (pc = "listen" /\ call.raised = "none" /\ ~call.ret)
    /\ (pc \in LoopPositions \cup {"done"} /\ call.method = "listen_for_command"
            /\ call.outcome \in CommandErrors)
        => (pc = "dispatch" /\ call.raised = "none" /\ call.ret = "")
    /\ (pc \in LoopPositions \cup {"done"} /\ Commanded /\ OnlyCommandErrors)
        => (pc = "sleep" /\ call.raised = "none")

\* a Wikipedia command whose log write failed and whose lookup found no page
\* left the loop at its sleep
C9_Witness ==
    /\ pc = "sleep"
    /\ Commanded
    /\ HandlersRun = << 3 >>
    /\ call.in.sub_outcome = "heard"
    /\ call.in.wiki = "not_found"
    /\ ~call.in.write_ok
    /\ TimesSpoken(effects, "Unfortunately, there is no page with that title.") = 1

\* the loop body can take its next step: the loop has not stopped
LoopGoesOn ==
    \/ ENABLED (PollWakeWord \/ SkipPoll \/ ListenCommand \/ SkipCommand
                \/ SkipDispatch \/ Sleep)
    \/ pc = "dispatch" /\ command # "" /\ AnswersFor(command) # {}

\* the last thing spoken in the most recent step ("" when nothing was)
LastSpoken ==
    LET said == EventsOf(effects, "speak")
    IN  IF said = << >> THEN "" ELSE said[Len(said)].arg

\* C10, as claimed: the run loop has no terminal state of its own: it keeps
\* running until an operator interrupt arrives; on the interrupt, at whatever
\* point of the loop, the farewell is spoken and the process terminates.
C10_RunsUntilInterrupt ==
    /\ pc \in LoopPositions => (LoopGoesOn /\ call.raised = "none")
    /\ pc = "done" =>
        /\ call.raised = "KeyboardInterrupt"
        /\ LastSpoken = Farewell

\* C10, amended: the run loop has no terminal state of its own: it keeps
\* running until an operator interrupt arrives or an unexpected internal
\* failure is caught; on the interrupt, at whatever point of the loop, the
\* farewell is spoken and the process terminates; on the failure the
\* shutdown notice is spoken and the process terminates.
C10_RunsUntilInterruptOrFailure ==
    /\ pc \in LoopPositions => (LoopGoesOn /\ call.raised = "none")
    /\ pc = "done" =>
        \/ call.raised = "KeyboardInterrupt" /\ LastSpoken = Farewell
        \/ call.raised = "Exception" /\ LastSpoken = ShutdownNotice

\* the interrupt arrived in the sub-listen of a handler and the farewell was
\* spoken
C10_Witness ==
    /\ pc = "done"
    /\ Commanded
    /\ call.in.sub_outcome = "interrupt"
    /\ call.raised = "KeyboardInterrupt"
    /\ LastSpoken = Farewell

\* C11: in every reachable state, is_active implies that
\* last_activation_time is at or after the time of the most recent wake-word
\* detection and at or after the time of the most recent dispatched command
\* (the clock never runs backwards, so the later of the two times is
\* last_event_time).
C11_ActiveSinceLastEvent ==
    is_active => last_activation_time >= last_event_time

\* the session is active after a command dispatched later than the wake-word
\* detection that activated it
C11_Witness ==
    /\ pc = "sleep"
    /\ Commanded
    /\ is_active
    /\ last_event_time = now
    /\ last_activation_time = now
    /\ now > StartTime

\* the settings the run loop reads
Settings == {"language", "log_commands", "max_wikipedia_sentences"}

\* C12: loading the configuration never crashes and never leaves a setting
\* undefined: for every state of the configuration source (absent,
\* unreadable, malformed) the loaded configuration is exactly the defaults
\* en-US, true, 2, and every later read of a setting in the run loop
\* succeeds.
C12_ConfigLoadNeverCrashes ==
    /\ pc # "crashed"
    /\ (call.method = "__init__"
            /\ call.file \in {"absent", "unreadable", "malformed"}) =>
        /\ call.raised = "none"
        /\ config = [language |-> "en-US", log_commands |-> TRUE,
                     max_wikipedia_sentences |-> 2]
    /\ pc \in LoopPositions => \A key \in Settings : HasKey(key)

\* the response categories
Categories == {"greetings", "jokes", "quotes", "preferences", "unknown_command"}

\* the entries of a category's list
Entries(c) == {responses[c][i] : i \in 1..Len(responses[c])}

\* C13: for each response category the response spoken by the corresponding
\* intent is always a member of that category's list, and nothing else is
\* spoken; and every member of the list can be the one spoken: from a state
\* in which process_command is about to be called, for each entry there is a
\* call that speaks it.
C13_ResponsesDrawnFromCategory ==
    /\ (pc = "returned" /\ Commanded /\ CategoryOf(call.intent) # "") =>
            /\ Len(EventsOf(effects, "speak")) = 1
            /\ LastSpoken \in Entries(CategoryOf(call.intent))
    /\ pc = "call" =>
            \A c \in Categories : \A e \in Entries(c) :
                \E query \in Utterances :
                    /\ CategoryOf(Intent(query)) = c
                    /\ \E in \in AnswersFor(query) :
                           TimesSpoken(ProcessCommand(query, in).effects, e) = 1

\* the joke intent spoke the last joke of the list
C13_Witness ==
    /\ pc = "returned"
    /\ Commanded
    /\ call.query = "joke"
    /\ call.in.pick = Len(responses["jokes"])
    /\ LastSpoken = responses["jokes"][5]

\* the timeout branch of listen_for_wake_word (lines 166-169) was taken in
\* the most recent step
TimeoutBranchTaken ==
    /\ call.method = "listen_for_wake_word"
    /\ call.was_active
    /\ ~is_active

DetectionStep ==
    /\ pc = "poll"
    /\ call'.method = "listen_for_wake_word"
    /\ call'.raised = "none"
    /\ call'.ret

\* C15: the session starts in IDLE (is_active false), and the only step that
\* makes it ACTIVE is a wake-word poll that detects the wake word, which also
\* sets last_activation_time to the current time; no command, sub-listen,
\* timeout or error ever sets is_active to true.
C15_OnlyDetectionActivates ==
    /\ ~is_active
    /\ [][/\ (~is_active /\ is_active') => DetectionStep
          /\ DetectionStep => (is_active' /\ last_activation_time' = now)]_vars

\* an idle session was activated by a poll that heard the wake word inside a
\* longer utterance
C15_Witness ==
    /\ pc = "listen"
    /\ Polled
    /\ ~call.was_active
    /\ call.text = "OK Hey Assistant please help"
    /\ call.ret
    /\ is_active
    /\ last_activation_time = now

\* a call of process_command, made on its own, that takes one of the
\* branches 3-13
OtherIntentCall ==
    /\ pc = "call"
    /\ call'.method = "process_command"
    /\ call'.intent \in 3..13

\* C16: handling any intent other than exit/goodbye/bye and sleep/deactivate
\* (intents 3-13, with the sub-listens of wikipedia, search and
\* change-wake-word and every lookup failure) leaves is_active unchanged, and
\* only the change-wake-word intent can change wake_word; timeout and the
\* configuration are changed by no intent.
C16_OtherIntentsKeepTheSession ==
    [][/\ OtherIntentCall => is_active' = is_active
       /\ wake_word' # wake_word => call'.intent = 12
       /\ timeout' = timeout
       /\ config' = config]_vars

\* a Wikipedia command whose lookup failed left the session active
C16_Witness ==
    /\ pc = "returned"
    /\ Commanded
    /\ call.intent = 3
    /\ call.in.sub_outcome = "heard"
    /\ call.in.wiki = "failed"
    /\ call.was_active
    /\ is_active
    /\ wake_word = "hey assistant"

\* a step of run() that dispatches a wikipedia, search or change-wake-word
\* command whose sub-listen returns the empty utterance
EmptySubListenStep ==
    /\ DispatchStep
    /\ call'.intent \in {3, 8, 12}
    /\ call'.in.sub_outcome \in CommandErrors

\* the texts spoken in evs, in order
SpokenIn(evs) ==
    [i \in 1..Len(EventsOf(evs, "speak")) |-> EventsOf(evs, "speak")[i].arg]

\* what the sub-listen speaks when it returns the empty utterance
SubListenApology ==
    {"I didn't hear a command.", "Sorry, I could not understand that.",
     "Sorry, there was an error with the speech recognition service."}

\* C17: when the blocking sub-listen of an intent returns the empty
\* utterance, the intent has no further effect: change-wake-word leaves
\* wake_word unchanged and speaks no confirmation, wikipedia performs no
\* lookup, search opens no web search (after the intent's question only the
\* sub-listen's prompt and apology are spoken); in each case the session
\* stays ACTIVE and the loop continues.
C17_EmptySubListenHasNoEffect ==
    [][EmptySubListenStep =>
        /\ wake_word' = wake_word
        /\ EventsOf(effects', "set_wake_word") = << >>
        /\ EventsOf(effects', "wikipedia_summary") = << >>
        /\ EventsOf(effects', "speak_summary") = << >>
        /\ EventsOf(effects', "webbrowser_open") = << >>
        /\ Len(SpokenIn(effects')) = 3
        /\ SpokenIn(effects')[2] = "How can I help you?"
        /\ SpokenIn(effects')[3] \in SubListenApology
        /\ is_active /\ is_active'
        /\ call'.raised = "none"
        /\ pc' = "sleep"]_vars

\* a change-wake-word command whose sub-listen heard nothing left the wake
\* word as it was
C17_Witness ==
    /\ pc = "sleep"
    /\ Commanded
    /\ call.intent = 12
    /\ call.in.sub_outcome = "wait_timeout"
    /\ wake_word = "hey assistant"
    /\ last_change.said = ""
    /\ is_active

\* a step of run() that calls listen_for_command (line 362)
ListenStep == pc = "listen" /\ call'.method = "listen_for_command"

\* C18: commands are accepted only in an active session: in the run loop
\* listen_for_command and process_command are invoked only when is_active is
\* true, and process_command only with a non-empty utterance; an exit or
\* sleep intent leaves the session idle, so that no command is listened for
\* or dispatched until a later wake-word poll has detected the wake word.
C18_CommandsOnlyWhenActive ==
    [][/\ ListenStep => is_active
       /\ DispatchStep => (is_active /\ command # "" /\ call'.query = command)
       /\ (DispatchStep /\ call'.intent \in {1, 2}) => ~is_active'
       /\ ~is_active => (~ListenStep /\ ~DispatchStep)
       /\ (~is_active /\ is_active') => DetectionStep]_vars

\* after a sleep command the loop skipped the command listen of an idle
\* session
C18_Witness ==
    /\ pc = "sleep"
    /\ call.method = "run"
    /\ ~is_active
    /\ last_event_time > 0
    /\ last_activation_time = last_event_time
    /\ Len(log) = 1
    /\ log[1].command = "go to sleep"

\* a step of run() whose top-level command listen fails: the transcription
\* fails, the service is unavailable or nothing is heard
FailedListenStep == ListenStep /\ call'.outcome \in CommandErrors

C20_WakeWordNonEmptyLowercase ==
    /\ wake_word # ""
    /\ \A i \in 1..Len(wake_word) :
            \A j \in 1..Len(UpperCase) :
                SubSeq(wake_word, i, i) # SubSeq(UpperCase, j, j)
    /\ (Polled /\ call.outcome = "heard"
            /\ ~OccursIgnoringCase(wake_word, call.text)) => ~call.ret

\* the wake word was changed to what was heard as "Computer", and a poll
\* that heard the old wake word did not detect it
C20_Witness ==
    /\ PolledAfterChange
    /\ last_change.said = "Computer"
    /\ wake_word = "computer"
    /\ call.text = "hey assistant"
    /\ ~call.ret

====
